---- MODULE Spec2Model ----
(***************************************************************************)
(* A model of the virtual machine of src/main.rs: the VM struct, the       *)
(* loader read_binary, the decoder parse_next_operation and the executor   *)
(* execute_operation, with every Rust panic (unwrap, expect, panic!,       *)
(* arithmetic overflow, remainder by zero) as an abort of the run.         *)
(* Words are u16 (0..65535), bytes are u8 (0..255).                        *)
(***************************************************************************)
EXTENDS Integers, Sequences, FiniteSets, TLC

VARIABLES
    instruction_ptr,  \* VM.instruction_ptr : u16
    mem,              \* VM.mem : HashMap<u16, u16>, a function on the mapped addresses
    registers,        \* VM.registers : [u16; 8], indexed 0..7
    stack,            \* VM.stack : Vec<u16>, the top is the last element
    halted,           \* VM.halted : bool
    pc,               \* where run_binary is: "load", "run", "exit", "panic"
    panic_msg,        \* the message of the panic that aborted the run ("" if none)
    stdout,           \* the bytes written by print!, in order
    stdin_read,       \* the bytes read_exact has consumed from stdin, in order
    overflow_checks,  \* the build profile: TRUE panics on u16 overflow, FALSE wraps
    operation,        \* what parse_next_operation last returned, with its address
    before,           \* the VM as it was at that call of parse_next_operation
    call_sites,       \* for each stack slot, <<p>> if the call at p pushed it, else <<>>
    steps,            \* number of operations executed so far
    binary            \* what fs::read returned to read_binary (<<>> before the load)

vars == <<instruction_ptr, mem, registers, stack, halted, pc, panic_msg, stdout,
          stdin_read, overflow_checks, operation, before, call_sites, steps, binary>>

----------------------------------------------------------------------------
(* Bounds of the exploration. *)

\* longest program of the combinatorial family, in instructions
MaxInstr == 2

\* most operations one run executes
MaxSteps == 6

----------------------------------------------------------------------------
(* Program constants. *)

\* 32_768: the first register reference
RegisterBase == 32768

\* 32_768: the modulus of add and mult
Modulus == 32768

\* 32_775: the last register reference
RegisterLast == 32775

\* registers: [u16; 8]
NumRegisters == 8

\* u16: 2^16 values
WordModulus == 65536

\* u8: 2^8 values
ByteModulus == 256

\* the highest opcode Operation::new maps
MaxOpcode == 21

Word == 0 .. (WordModulus - 1)

----------------------------------------------------------------------------
(* Option<T>: None is the empty tuple, Some(x) the one-element tuple. *)

None == <<>>

Some(x) == <<x>>

Unwrap(o) == o[1]

(* The panic messages of the program. *)
MsgInvalidOpcode == "Invalid opcode."

MsgSetRegister == "First argument for set operation should be a register."

MsgPopEmpty == "Stack should be non-empty for pop operation."

MsgUnwrapNone == "called Option::unwrap() on a None value"

MsgUnwrapErr == "called Result::unwrap() on an Err value"

MsgAddOverflow == "attempt to add with overflow"

MsgRemZero == "attempt to calculate the remainder with a divisor of zero"

----------------------------------------------------------------------------
(* Bitwise operators of u16, bit by bit. *)

RECURSIVE BitAnd(_, _)
BitAnd(a, b) ==
    IF a = 0 \/ b = 0 THEN 0
    ELSE (a % 2) * (b % 2) + 2 * BitAnd(a \div 2, b \div 2)

RECURSIVE BitOr(_, _)
BitOr(a, b) ==
    IF a = 0 THEN b
    ELSE IF b = 0 THEN a
    ELSE (IF a % 2 = 1 \/ b % 2 = 1 THEN 1 ELSE 0) + 2 * BitOr(a \div 2, b \div 2)

RECURSIVE BitXor(_, _)
BitXor(a, b) ==
    IF a = 0 THEN b
    ELSE IF b = 0 THEN a
    ELSE (((a % 2) + (b % 2)) % 2) + 2 * BitXor(a \div 2, b \div 2)

----------------------------------------------------------------------------
(* The machine as one record, so that the steps of an operation compose. *)

Self ==
    [instruction_ptr |-> instruction_ptr, mem |-> mem, registers |-> registers,
     stack |-> stack, halted |-> halted, stdout |-> stdout,
     stdin_read |-> stdin_read, panic |-> ""]

\* a panic: the machine keeps what was done before it, and nothing follows
Panicked(s, msg) == IF s.panic = "" THEN [s EXCEPT !.panic = msg] ELSE s

\* u16 + u16: a panic under overflow checks, else the wrapped sum
CheckedAdd(a, b) ==
    IF a + b >= WordModulus /\ overflow_checks THEN None
    ELSE Some((a + b) % WordModulus)

----------------------------------------------------------------------------
(* Addressing: register_idx, set_register, get_value. *)

\* Some(index) for a register reference 32768..32775, None for any other word
register_idx(value) ==
    IF value < RegisterBase \/ value > RegisterLast THEN None
    ELSE Some(value % RegisterBase)

\* set_register dropping a write whose destination is not a register reference
set_register_IgnoresNonRegister(s, address, value) ==
    IF s.panic # "" THEN s
    ELSE IF register_idx(address) = None THEN s
    ELSE [s EXCEPT !.registers[Unwrap(register_idx(address))] = value]

\* registers[register_idx(address).unwrap()] = value
set_register(s, address, value) ==
    IF s.panic # "" THEN s
    ELSE IF register_idx(address) = None THEN Panicked(s, MsgUnwrapNone)
    ELSE [s EXCEPT !.registers[Unwrap(register_idx(address))] = value]

\* the register's content for a register reference, else the word itself
get_value(s, value) ==
    IF register_idx(value) # None THEN s.registers[Unwrap(register_idx(value))]
    ELSE value

----------------------------------------------------------------------------
(* The decoder. *)

\* Operation::num_arguments, for an opcode in 0..21
num_arguments(opcode) ==
    CASE opcode \in {0, 18, 21} -> 0
      [] opcode \in {2, 3, 6, 17, 19, 20} -> 1
      [] opcode \in {1, 7, 8, 14, 15, 16} -> 2
      [] opcode \in {4, 5, 9, 10, 11, 12, 13} -> 3

\* the address instruction_ptr + 1 + i of argument i, None when the sum panics
arg_address(s, i) ==
    LET first == CheckedAdd(s.instruction_ptr, 1)
    IN  IF first = None THEN None ELSE CheckedAdd(Unwrap(first), i)

\* the loop over 0..num_arguments: the arguments read so far, or the first panic
RECURSIVE read_args(_, _, _, _)
read_args(s, i, n, args) ==
    IF i = n THEN [panic |-> "", args |-> args]
    ELSE IF arg_address(s, i) = None THEN [panic |-> MsgAddOverflow, args |-> args]
    ELSE IF Unwrap(arg_address(s, i)) \notin DOMAIN s.mem
         THEN [panic |-> MsgUnwrapNone, args |-> args]
    ELSE read_args(s, i + 1, n, Append(args, s.mem[Unwrap(arg_address(s, i))]))

\* the operation at the instruction pointer: its opcode, its raw arguments and its
\* address, or the panic that decoding it ends in
parse_next_operation(s) ==
    IF s.instruction_ptr \notin DOMAIN s.mem
    THEN [panic |-> MsgUnwrapNone, opcode |-> 0, args |-> <<>>, at |-> s.instruction_ptr]
    ELSE LET opcode == s.mem[s.instruction_ptr]
         IN  IF opcode > MaxOpcode
             THEN [panic |-> MsgInvalidOpcode, opcode |-> opcode, args |-> <<>>,
                   at |-> s.instruction_ptr]
             ELSE LET r == read_args(s, 0, num_arguments(opcode), <<>>)
                  IN  [panic |-> r.panic, opcode |-> opcode, args |-> r.args,
                       at |-> s.instruction_ptr]

----------------------------------------------------------------------------
(* The executor: one operator per arm of the first match of                *)
(* execute_operation, each from the machine before to the machine after.   *)

\* self.instruction_ptr += n
add_to_ip(s, n) ==
    IF s.panic # "" THEN s
    ELSE IF CheckedAdd(s.instruction_ptr, n) = None THEN Panicked(s, MsgAddOverflow)
    ELSE [s EXCEPT !.instruction_ptr = Unwrap(CheckedAdd(s.instruction_ptr, n))]

ExecHalt(s) == [s EXCEPT !.halted = TRUE]

ExecSet(s, register, value) ==
    IF register_idx(register) = None THEN Panicked(s, MsgSetRegister)
    ELSE [s EXCEPT !.registers[Unwrap(register_idx(register))] = get_value(s, value)]

\* ExecPush with the operand pushed raw, not resolved through get_value
ExecPush_Raw(s, value) == [s EXCEPT !.stack = Append(@, value)]

ExecPush(s, value) == [s EXCEPT !.stack = Append(@, get_value(s, value))]

\* ExecPop taking the empty stack as ret does: it sets halted instead of panicking
ExecPop_HaltsOnEmpty(s, address) ==
    IF s.stack = <<>> THEN [s EXCEPT !.halted = TRUE]
    ELSE set_register([s EXCEPT !.stack = SubSeq(@, 1, Len(@) - 1)], address,
                      s.stack[Len(s.stack)])

ExecPop(s, address) ==
    IF s.stack = <<>> THEN Panicked(s, MsgPopEmpty)
    ELSE set_register([s EXCEPT !.stack = SubSeq(@, 1, Len(@) - 1)], address,
                      s.stack[Len(s.stack)])

ExecEq(s, address, b, c) ==
    set_register(s, address, IF get_value(s, b) = get_value(s, c) THEN 1 ELSE 0)

ExecGt(s, address, b, c) ==
    set_register(s, address, IF get_value(s, b) > get_value(s, c) THEN 1 ELSE 0)

ExecJmp(s, address) == [s EXCEPT !.instruction_ptr = get_value(s, address)]

ExecJt(s, value, address) ==
    IF get_value(s, value) # 0 THEN [s EXCEPT !.instruction_ptr = get_value(s, address)]
    ELSE add_to_ip(s, 3)

ExecJf(s, value, address) ==
    IF get_value(s, value) = 0 THEN [s EXCEPT !.instruction_ptr = get_value(s, address)]
    ELSE add_to_ip(s, 3)

\* ExecAdd without the reduction modulo 32_768
ExecAdd_NoModulus(s, address, b, c) ==
    LET sum == CheckedAdd(get_value(s, b), get_value(s, c))
    IN  IF sum = None THEN Panicked(s, MsgAddOverflow)
        ELSE set_register(s, address, Unwrap(sum))

\* (get_value(b) + get_value(c)) % 32_768, the sum a u16
ExecAdd(s, address, b, c) ==
    LET sum == CheckedAdd(get_value(s, b), get_value(s, c))
    IN  IF sum = None THEN Panicked(s, MsgAddOverflow)
        ELSE set_register(s, address, Unwrap(sum) % Modulus)

\* (a as u32 * b as u32) % 32_768: the product of two u16 fits a u32, so it is the
\* exact product that is reduced. The factors are reduced first here, which gives the
\* same remainder and keeps the product within the model checker's integers.
mul_mod(a, b) == ((a % Modulus) * (b % Modulus)) % Modulus

\* ((get_value(b) as u32 * get_value(c) as u32) % 32_768) as u16
ExecMult(s, address, b, c) ==
    set_register(s, address, mul_mod(get_value(s, b), get_value(s, c)))

\* ExecMod storing 0 for a zero divisor instead of panicking
ExecMod_ZeroDivisorGivesZero(s, address, b, c) ==
    IF get_value(s, c) = 0 THEN set_register(s, address, 0)
    ELSE set_register(s, address, get_value(s, b) % get_value(s, c))

ExecMod(s, address, b, c) ==
    IF get_value(s, c) = 0 THEN Panicked(s, MsgRemZero)
    ELSE set_register(s, address, get_value(s, b) % get_value(s, c))

ExecAnd(s, address, b, c) ==
    set_register(s, address, BitAnd(get_value(s, b), get_value(s, c)))

ExecOr(s, address, b, c) ==
    set_register(s, address, BitOr(get_value(s, b), get_value(s, c)))

\* ExecNot without the mask to 15 bits
ExecNot_NoMask(s, address, b) ==
    set_register(s, address, BitXor(get_value(s, b), 65535))

\* (get_value(b) ^ 0xffff) & 0x7fff
ExecNot(s, address, b) ==
    set_register(s, address, BitAnd(BitXor(get_value(s, b), 65535), 32767))

\* self.mem.insert(address, value)
mem_insert(m, address, value) ==
    [a \in DOMAIN m \cup {address} |-> IF a = address THEN value ELSE m[a]]

\* ExecRmem with the direction of the copy reversed: the register's content is stored
\* in the memory cell
ExecRmem_WritesMemory(s, write_address, read_address) ==
    [s EXCEPT !.mem = mem_insert(@, get_value(s, read_address),
                                 get_value(s, write_address))]

\* ExecRmem reading 0 from a cell that is not mapped (unwrap_or(&0))
ExecRmem_DefaultZero(s, write_address, read_address) ==
    IF get_value(s, read_address) \notin DOMAIN s.mem
    THEN set_register(s, write_address, 0)
    ELSE set_register(s, write_address, s.mem[get_value(s, read_address)])

ExecRmem(s, write_address, read_address) ==
    IF get_value(s, read_address) \notin DOMAIN s.mem THEN Panicked(s, MsgUnwrapNone)
    ELSE set_register(s, write_address, s.mem[get_value(s, read_address)])

\* ExecWmem writing at the raw operand instead of the value it resolves to
ExecWmem_RawAddress(s, write_address, read_address) ==
    [s EXCEPT !.mem = mem_insert(@, write_address, get_value(s, read_address))]

ExecWmem(s, write_address, read_address) ==
    [s EXCEPT !.mem = mem_insert(@, get_value(s, write_address),
                                 get_value(s, read_address))]

\* ExecCall pushing the address of its operand, instruction_ptr + 1
ExecCall_PushesOperand(s, address) ==
    IF CheckedAdd(s.instruction_ptr, 1) = None THEN Panicked(s, MsgAddOverflow)
    ELSE [s EXCEPT !.stack = Append(@, Unwrap(CheckedAdd(s.instruction_ptr, 1))),
                   !.instruction_ptr = get_value(s, address)]

ExecCall(s, address) ==
    IF CheckedAdd(s.instruction_ptr, 2) = None THEN Panicked(s, MsgAddOverflow)
    ELSE [s EXCEPT !.stack = Append(@, Unwrap(CheckedAdd(s.instruction_ptr, 2))),
                   !.instruction_ptr = get_value(s, address)]

\* ExecRet taking the empty stack as pop does: it panics instead of halting
ExecRet_PanicsOnEmpty(s) ==
    IF s.stack # <<>>
    THEN [s EXCEPT !.stack = SubSeq(@, 1, Len(@) - 1),
                   !.instruction_ptr = s.stack[Len(s.stack)]]
    ELSE Panicked(s, MsgPopEmpty)

ExecRet(s) ==
    IF s.stack # <<>>
    THEN [s EXCEPT !.stack = SubSeq(@, 1, Len(@) - 1),
                   !.instruction_ptr = s.stack[Len(s.stack)]]
    ELSE [s EXCEPT !.halted = TRUE]

\* the bytes print!("{}", value as char) writes: a char below 128 is one byte of
\* UTF-8, a char in 128..255 is two
char_bytes(value) ==
    IF value < 128 THEN <<value>>
    ELSE <<192 + (value \div 64), 128 + (value % 64)>>

\* u8::try_from(get_value(value)).unwrap(), then the print
ExecOut(s, value) ==
    IF get_value(s, value) >= ByteModulus THEN Panicked(s, MsgUnwrapErr)
    ELSE [s EXCEPT !.stdout = @ \o char_bytes(get_value(s, value))]

\* input: Some(byte) when stdin has a byte, None at its end
ExecIn(s, address, input) ==
    IF input = None THEN Panicked(s, MsgUnwrapErr)
    ELSE set_register([s EXCEPT !.stdin_read = Append(@, Unwrap(input))], address,
                      Unwrap(input))

ExecNoop(s) == s

\* ip_advance moving the pointer past out's opcode only, not past its operand
ip_advance_OutByOne(opcode) ==
    CASE opcode \in {0, 6, 7, 8, 17, 18} -> 0
      [] opcode \in {19, 21} -> 1
      [] opcode \in {2, 3, 20} -> 2
      [] opcode \in {1, 14, 15, 16} -> 3
      [] opcode \in {4, 5, 9, 10, 11, 12, 13} -> 4

\* ip_advance moving the pointer past jmp's two words after jmp has set it
ip_advance_JmpAdvances(opcode) ==
    CASE opcode \in {0, 7, 8, 17, 18} -> 0
      [] opcode = 21 -> 1
      [] opcode \in {2, 3, 6, 19, 20} -> 2
      [] opcode \in {1, 14, 15, 16} -> 3
      [] opcode \in {4, 5, 9, 10, 11, 12, 13} -> 4

\* the second match of execute_operation: how far the operation moves the pointer
ip_advance(opcode) ==
    CASE opcode \in {0, 6, 7, 8, 17, 18} -> 0
      [] opcode = 21 -> 1
      [] opcode \in {2, 3, 19, 20} -> 2
      [] opcode \in {1, 14, 15, 16} -> 3
      [] opcode \in {4, 5, 9, 10, 11, 12, 13} -> 4

\* the first match
execute_arm(s, op, input) ==
    LET a == op.args
    IN  CASE op.opcode = 0 -> ExecHalt(s)
          [] op.opcode = 1 -> ExecSet(s, a[1], a[2])
          [] op.opcode = 2 -> ExecPush(s, a[1])
          [] op.opcode = 3 -> ExecPop(s, a[1])
          [] op.opcode = 4 -> ExecEq(s, a[1], a[2], a[3])
          [] op.opcode = 5 -> ExecGt(s, a[1], a[2], a[3])
          [] op.opcode = 6 -> ExecJmp(s, a[1])
          [] op.opcode = 7 -> ExecJt(s, a[1], a[2])
          [] op.opcode = 8 -> ExecJf(s, a[1], a[2])
          [] op.opcode = 9 -> ExecAdd(s, a[1], a[2], a[3])
          [] op.opcode = 10 -> ExecMult(s, a[1], a[2], a[3])
          [] op.opcode = 11 -> ExecMod(s, a[1], a[2], a[3])
          [] op.opcode = 12 -> ExecAnd(s, a[1], a[2], a[3])
          [] op.opcode = 13 -> ExecOr(s, a[1], a[2], a[3])
          [] op.opcode = 14 -> ExecNot(s, a[1], a[2])
          [] op.opcode = 15 -> ExecRmem(s, a[1], a[2])
          [] op.opcode = 16 -> ExecWmem(s, a[1], a[2])
          [] op.opcode = 17 -> ExecCall(s, a[1])
          [] op.opcode = 18 -> ExecRet(s)
          [] op.opcode = 19 -> ExecOut(s, a[1])
          [] op.opcode = 20 -> ExecIn(s, a[1], input)
          [] op.opcode = 21 -> ExecNoop(s)

\* execute_operation: the arm, then the pointer's advance
execute_operation(s, op, input) ==
    IF ip_advance(op.opcode) = 0 THEN execute_arm(s, op, input)
    ELSE add_to_ip(execute_arm(s, op, input), ip_advance(op.opcode))

----------------------------------------------------------------------------
(* The loader. *)

\* from_le_bytes taking the first byte as the high one (u16::from_be_bytes)
from_le_bytes_BigEndian(bytes) == bytes[2] + ByteModulus * bytes[1]

\* u16::from_le_bytes
from_le_bytes(bytes) == bytes[1] + ByteModulus * bytes[2]

\* read_binary's loop over chunks_mut(2), from chunk idx on: a chunk of one byte (the
\* tail of an odd image) fails bytes.try_into(), an idx above u16 fails idx.try_into();
\* the words inserted before the panic stay in mem
RECURSIVE load_chunks(_, _, _)
load_chunks(s, bytes, idx) ==
    IF 2 * idx >= Len(bytes) THEN s
    ELSE IF idx >= WordModulus THEN Panicked(s, MsgUnwrapErr)
    ELSE IF 2 * idx + 2 > Len(bytes) THEN Panicked(s, MsgUnwrapErr)
    ELSE load_chunks(
             [s EXCEPT !.mem = mem_insert(@, idx, from_le_bytes(
                                   <<bytes[2 * idx + 1], bytes[2 * idx + 2]>>))],
             bytes, idx + 1)

\* file: Some(bytes) when fs::read succeeds, None when it fails
read_binary(s, file) ==
    IF file = None THEN Panicked(s, MsgUnwrapErr)
    ELSE load_chunks(s, Unwrap(file), 0)

----------------------------------------------------------------------------
(* The program images and the input bytes the exploration runs the machine on. *)

\* u16::to_le_bytes
to_le_bytes(w) == <<w % ByteModulus, w \div ByteModulus>>

RECURSIVE Flatten(_)
Flatten(ss) == IF ss = <<>> THEN <<>> ELSE Head(ss) \o Flatten(Tail(ss))

ImageOf(words) == Flatten([i \in 1 .. Len(words) |-> to_le_bytes(words[i])])

\* operands in a value position: literals, register references, invalid words
ValOps == {0, 1, 200, 256, 32767, 32768, 32769, 32776, 65535}

\* operands in a destination position
DestOps == {32768, 32775, 7, 32776}

\* register contents a prelude sets
PreVals == {0, 1, 200, 255, 32767, 40000}

\* every operation alone, over the operands
SingleOps ==
    {<<0>>, <<18>>, <<21>>, <<22>>, <<255>>, <<65535>>}
    \cup {<<o, a>> : o \in {2, 6, 17, 19}, a \in ValOps}
    \cup {<<o, d>> : o \in {3, 20}, d \in DestOps}
    \cup {<<o, d, a>> : o \in {1, 14, 15}, d \in DestOps, a \in ValOps}
    \cup {<<o, a, b>> : o \in {7, 8, 16}, a \in ValOps, b \in ValOps}
    \cup {<<o, d, a, b>> : o \in {4, 5, 9, 10, 11, 12, 13}, d \in DestOps,
                           a \in ValOps, b \in ValOps}

\* operations on registers 0 and 1
RegisterOps ==
    {<<o, 32768>> : o \in {2, 6, 17, 19}}
    \cup {<<o, 32770, 32768>> : o \in {1, 14, 15}}
    \cup {<<o, 32768, 32768>> : o \in {14}}
    \cup {<<o, 32768, 32769>> : o \in {7, 8, 16}}
    \cup {<<o, d, a, b>> : o \in {4, 5, 9, 10, 11, 12, 13}, d \in {32770},
                           a \in {32768, 32769}, b \in {32768, 32769}}

\* set r0 a; set r1 b; then an operation on them
PreludePrograms ==
    {<<1, 32768, a, 1, 32769, b>> \o op : a \in PreVals, b \in PreVals, op \in RegisterOps}

\* the instructions of the combinatorial family
CoreOps ==
    {<<0>>, <<21>>, <<18>>,
     <<1, 32768, 5>>, <<1, 32769, 40000>>,
     <<2, 32767>>, <<2, 32768>>, <<3, 32768>>, <<3, 7>>,
     <<6, 0>>, <<7, 32768, 0>>, <<8, 32768, 5>>,
     <<9, 32768, 32768, 32767>>, <<14, 32768, 32768>>,
     <<15, 32768, 1>>, <<16, 32768, 32769>>, <<16, 3, 21>>,
     <<17, 2>>, <<17, 4>>, <<19, 32768>>, <<20, 32768>>}

\* every sequence of at most MaxInstr instructions of CoreOps
CorePrograms ==
    {Flatten(p) : p \in UNION {[1 .. k -> CoreOps] : k \in 0 .. MaxInstr}}

\* programs for the scenarios of the specification's section 8, and for the ends of
\* the address space
ScenarioPrograms ==
    {<<19, 72, 19, 105, 0>>,
     <<20, 32768, 19, 32768, 0>>,
     <<17, 3, 0, 2, 7, 3, 32768, 18>>,
     <<17, 2, 17, 4, 18>>,
     <<2, 9, 2, 4, 18, 0, 0, 0, 0, 18>>,
     <<16, 65535, 21, 6, 65535>>,
     <<16, 65535, 2, 6, 65535>>,
     <<16, 65534, 17, 16, 65535, 8, 6, 65534, 18>>,
     <<16, 65534, 2, 16, 65535, 5, 6, 65534>>}
    \cup {<<14, 32768, a, 14, 32768, 32768>> : a \in ValOps}
    \cup {<<2, 5>> \o <<2, v, 3, d>> : v \in ValOps, d \in DestOps}
    \cup {<<2, v, 3, d>> : v \in ValOps, d \in DestOps}
    \cup {<<16, a, b, 15, d, a>> : a \in {0, 6, 100, 32768, 32776}, b \in ValOps,
                                      d \in DestOps}
    \cup {<<1, 32768, a, 16, 32768, b, 15, d, 32768>> :
               a \in {4, 100, 40000}, b \in ValOps, d \in {32768, 32769}}

Programs == SingleOps \cup PreludePrograms \cup CorePrograms \cup ScenarioPrograms

\* what fs::read returns: a whole image, an image with one byte too many, or an error
Files ==
    {Some(ImageOf(p)) : p \in Programs}
    \cup {Some(Append(ImageOf(p), 1)) : p \in CorePrograms}
    \cup {None}

\* what read_exact returns: a byte, or the end of stdin as None
Stdin == {Some(b) : b \in {0, 65, 200, 255}} \cup {None}

----------------------------------------------------------------------------
(* The state machine: main builds VM::default() and calls run_binary. *)

NoOperation == [panic |-> "", opcode |-> -1, args |-> <<>>, at |-> 0]

Init ==
    /\ instruction_ptr = 0
    /\ mem = <<>>
    /\ registers = [r \in 0 .. (NumRegisters - 1) |-> 0]
    /\ stack = <<>>
    /\ halted = FALSE
    /\ pc = "load"
    /\ panic_msg = ""
    /\ stdout = <<>>
    /\ stdin_read = <<>>
    /\ overflow_checks \in BOOLEAN
    /\ operation = NoOperation
    /\ before = [instruction_ptr |-> 0, mem |-> <<>>,
                 registers |-> [r \in 0 .. (NumRegisters - 1) |-> 0],
                 stack |-> <<>>, halted |-> FALSE, stdout |-> <<>>,
                 stdin_read |-> <<>>, panic |-> ""]
    /\ call_sites = <<>>
    /\ steps = 0
    /\ binary = None

\* the machine s becomes the state; a panic ends the run
Commit(s) ==
    /\ instruction_ptr' = s.instruction_ptr
    /\ mem' = s.mem
    /\ registers' = s.registers
    /\ stack' = s.stack
    /\ halted' = s.halted
    /\ stdout' = s.stdout
    /\ stdin_read' = s.stdin_read
    /\ panic_msg' = s.panic
    /\ pc' = IF s.panic # "" THEN "panic" ELSE "run"

\* which call, if any, pushed each stack slot, kept in step with the stack
TrackCalls(s, op) ==
    call_sites' =
        IF Len(s.stack) > Len(stack)
        THEN Append(call_sites, IF op.opcode = 17 THEN Some(op.at) ELSE None)
        ELSE IF Len(s.stack) < Len(stack)
        THEN SubSeq(call_sites, 1, Len(call_sites) - 1)
        ELSE call_sites

\* run_binary's first statement
ReadBinary ==
    /\ pc = "load"
    /\ \E file \in Files :
           /\ \E s \in {read_binary(Self, file)} : Commit(s)
           /\ binary' = file
    /\ UNCHANGED <<overflow_checks, operation, before, call_sites, steps>>

\* the loop's condition holds: the next operation can be fetched
Running == pc = "run" /\ ~halted /\ steps < MaxSteps

\* parse_next_operation returns an operation of this opcode
Decodes(opcode) ==
    /\ Running
    /\ instruction_ptr \in DOMAIN mem
    /\ mem[instruction_ptr] = opcode
    /\ parse_next_operation(Self).panic = ""

\* execute_next_operation: parse, then execute
Execute(input) ==
    \E op \in {parse_next_operation(Self)} :
        \E s \in {execute_operation(Self, op, input)} :
            /\ Commit(s)
            /\ TrackCalls(s, op)
            /\ operation' = op
            /\ before' = Self
            /\ steps' = steps + 1
            /\ UNCHANGED <<overflow_checks, binary>>

\* execute_next_operation when parse_next_operation panics
DecodeFail ==
    /\ Running
    /\ parse_next_operation(Self).panic # ""
    /\ pc' = "panic"
    /\ panic_msg' = parse_next_operation(Self).panic
    /\ operation' = parse_next_operation(Self)
    /\ before' = Self
    /\ UNCHANGED <<instruction_ptr, mem, registers, stack, halted, stdout, stdin_read,
                   overflow_checks, call_sites, steps, binary>>

Halt == Decodes(0) /\ Execute(None)

Set == Decodes(1) /\ Execute(None)

Push == Decodes(2) /\ Execute(None)

Pop == Decodes(3) /\ Execute(None)

Eq == Decodes(4) /\ Execute(None)

Gt == Decodes(5) /\ Execute(None)

Jmp == Decodes(6) /\ Execute(None)

Jt == Decodes(7) /\ Execute(None)

Jf == Decodes(8) /\ Execute(None)

Add == Decodes(9) /\ Execute(None)

Mult == Decodes(10) /\ Execute(None)

Mod == Decodes(11) /\ Execute(None)

And == Decodes(12) /\ Execute(None)

Or == Decodes(13) /\ Execute(None)

Not == Decodes(14) /\ Execute(None)

Rmem == Decodes(15) /\ Execute(None)

Wmem == Decodes(16) /\ Execute(None)

Call == Decodes(17) /\ Execute(None)

Ret == Decodes(18) /\ Execute(None)

Out == Decodes(19) /\ Execute(None)

In == Decodes(20) /\ \E input \in Stdin : Execute(input)

Noop == Decodes(21) /\ Execute(None)

\* the loop's condition fails: run_binary returns
Exit ==
    /\ pc = "run"
    /\ halted
    /\ pc' = "exit"
    /\ UNCHANGED <<instruction_ptr, mem, registers, stack, halted, panic_msg, stdout,
                   stdin_read, overflow_checks, operation, before, call_sites, steps,
                   binary>>

Next ==
    \/ ReadBinary
    \/ DecodeFail
    \/ Halt
    \/ Set
    \/ Push
    \/ Pop
    \/ Eq
    \/ Gt
    \/ Jmp
    \/ Jt
    \/ Jf
    \/ Add
    \/ Mult
    \/ Mod
    \/ And
    \/ Or
    \/ Not
    \/ Rmem
    \/ Wmem
    \/ Call
    \/ Ret
    \/ Out
    \/ In
    \/ Noop
    \/ Exit

Spec == Init /\ [][Next]_vars

----------------------------------------------------------------------------
(* Vocabulary of the properties. *)

\* the last step executed an operation of this opcode (it may have panicked in it)
Executed(opcode) == operation.panic = "" /\ operation.opcode = opcode

\* the run was aborted by a panic
Aborted == pc = "panic"

\* the i-th raw operand of the last operation, and its value when it was executed
Raw(i) == operation.args[i]

Resolved(i) == get_value(before, operation.args[i])

\* the register a destination operand names
DestIdx(i) == Unwrap(register_idx(operation.args[i]))

\* the operand positions execute_operation reads through get_value
ValuePositions(opcode) ==
    CASE opcode \in {2, 6, 17, 19} -> {1}
      [] opcode \in {7, 8, 16} -> {1, 2}
      [] opcode \in {1, 14, 15} -> {2}
      [] opcode \in {4, 5, 9, 10, 11, 12, 13} -> {2, 3}
      [] OTHER -> {}

\* the values a 15-bit register or literal may hold
Literal == 0 .. (Modulus - 1)

----------------------------------------------------------------------------
\* C1: in every reachable state each of the 8 registers holds a value in 0..32767.
\* Stated as the claim states it; set and rmem store any u16.
C1_RegistersHold15Bits ==
    \A r \in 0 .. (NumRegisters - 1) : registers[r] \in Literal

\* C2: an executed operation with a word >= 32776 in a value position aborts the run.
\* Stated as the claim states it; get_value returns such a word as a literal.
C2_InvalidOperandAborts ==
    (/\ operation.panic = ""
     /\ \E i \in ValuePositions(operation.opcode) : Raw(i) > RegisterLast)
        => Aborted

\* C3: out of a resolved value v in 0..32767 does not abort, appends the one byte
\* v mod 256 to the output and moves the pointer by 2.
\* Stated as the claim states it; out panics on v >= 256 and writes two bytes for
\* v in 128..255.
C3_OutWritesLowByte ==
    (Executed(19) /\ Resolved(1) \in Literal)
        => /\ ~Aborted
           /\ stdout = Append(before.stdout, Resolved(1) % ByteModulus)
           /\ instruction_ptr = operation.at + 2

----------------------------------------------------------------------------
\* this step executes an operation: execute_next_operation got past the decoder
ExecutesStep == steps' = steps + 1

\* the stack top
Top(st) == st[Len(st)]

\* C4: halted turns true only in a step that executes halt, or ret on an empty stack;
\* once halted is true no operation is decoded or executed any more; and a step that
\* ends in a panic leaves halted false.
C4_HaltedOnlyByHaltOrRet ==
    [][/\ (halted' # halted) =>
              /\ ~halted /\ halted' /\ ExecutesStep /\ pc' = "run"
              /\ operation'.panic = ""
              /\ \/ operation'.opcode = 0
                 \/ operation'.opcode = 18 /\ stack = <<>>
       /\ halted =>
              /\ UNCHANGED <<instruction_ptr, mem, registers, stack, halted, stdout,
                             stdin_read, operation, before, steps, panic_msg>>
              /\ pc' = "exit"
       /\ pc' = "panic" => ~halted'
       /\ pc = "panic" => UNCHANGED vars]_vars

\* C4 witness: a run that ended Halted through ret on an empty stack
C4_Witness ==
    pc = "exit" /\ halted /\ Executed(18) /\ before.stack = <<>> /\ steps > 1

\* C5: pop on an empty stack aborts with halted false; ret on an empty stack sets
\* halted without abort and leaves pointer, registers and memory alone; ret on a
\* non-empty stack moves the pointer to the popped top and does not halt.
C5_PopAbortsRetHalts ==
    /\ (Executed(3) /\ before.stack = <<>>) =>
           Aborted /\ ~halted /\ panic_msg = MsgPopEmpty
    /\ (Executed(18) /\ before.stack = <<>>) =>
           /\ ~Aborted /\ halted
           /\ instruction_ptr = before.instruction_ptr
           /\ registers = before.registers
           /\ mem = before.mem
    /\ (Executed(18) /\ before.stack # <<>>) =>
           /\ ~Aborted /\ ~halted
           /\ instruction_ptr = Top(before.stack)
           /\ stack = SubSeq(before.stack, 1, Len(before.stack) - 1)

\* C5 witness: pop was executed on an empty stack
C5_Witness == Executed(3) /\ before.stack = <<>> /\ Aborted

\* C6: a call at address p (p + 2 a 16-bit word) pushes p + 2 and moves the pointer to
\* the resolved target; the ret that pops the word this call pushed (the stack being
\* last-in first-out, the first ret after a balanced run) leaves the pointer at p + 2.
C6_CallRetReturnsAfterCall ==
    [][ExecutesStep =>
           /\ (operation'.opcode = 17 /\ operation'.at + 2 < WordModulus) =>
                  /\ pc' = "run"
                  /\ stack' = Append(stack, operation'.at + 2)
                  /\ instruction_ptr' = get_value(Self, operation'.args[1])
           /\ (/\ operation'.opcode = 18
               /\ call_sites # <<>>
               /\ Top(call_sites) # None
               /\ Unwrap(Top(call_sites)) + 2 < WordModulus) =>
                  /\ pc' = "run" /\ ~halted'
                  /\ instruction_ptr' = Unwrap(Top(call_sites)) + 2]_vars

\* C6 witness: a ret returned to a call made below another call's frame, after a
\* later call and its ret
C6_Witness ==
    /\ Executed(18) /\ ~Aborted
    /\ before.stack # <<>>
    /\ Len(call_sites) = Len(stack)
    /\ instruction_ptr = 2
    /\ stack = <<>>
    /\ steps >= 4

\* the values a panic message is formatted with: every panic!, expect and unwrap of
\* the program has a fixed message, none carries a value of the machine
panic_values(msg) == <<>>

\* C7: a word outside 0..21 at the pointer aborts the run with a decode error, with
\* registers, memory, stack, pointer and halted unchanged, and the reported error
\* names the pointer.
\* Stated as the claim states it; the panic message is the fixed "Invalid opcode.".
C7_DecodeErrorNamesPointer ==
    (operation.panic # "" /\ operation.opcode > MaxOpcode) =>
        /\ Aborted /\ panic_msg = MsgInvalidOpcode
        /\ instruction_ptr = before.instruction_ptr
        /\ registers = before.registers
        /\ mem = before.mem
        /\ stack = before.stack
        /\ halted = before.halted
        /\ \E i \in DOMAIN panic_values(panic_msg) :
               panic_values(panic_msg)[i] = operation.at

\* C7 witness: the decoder met a word outside 0..21 at the pointer
C7_Witness ==
    /\ operation.panic = MsgInvalidOpcode
    /\ operation.opcode = 255
    /\ operation.at = 0
    /\ Aborted

\* C8: add and mult of resolved values a, b in 0..32767 into a register store
\* (a + b) mod 32768 and (a * b) mod 32768, in 0..32767, the same with a and b
\* swapped; no panic comes from the intermediate (a panic can only be the pointer's
\* advance past the last word, after the register is written).
C8_AddMultWrapAt15Bits ==
    (/\ operation.panic = ""
     /\ operation.opcode \in {9, 10}
     /\ register_idx(Raw(1)) # None
     /\ Resolved(2) \in Literal
     /\ Resolved(3) \in Literal) =>
        /\ operation.opcode = 9 =>
               /\ registers[DestIdx(1)] = (Resolved(2) + Resolved(3)) % Modulus
               /\ ExecAdd(before, Raw(1), Raw(3), Raw(2)).registers[DestIdx(1)]
                      = registers[DestIdx(1)]
        /\ operation.opcode = 10 =>
               /\ registers[DestIdx(1)] = (Resolved(2) * Resolved(3)) % Modulus
               /\ ExecMult(before, Raw(1), Raw(3), Raw(2)).registers[DestIdx(1)]
                      = registers[DestIdx(1)]
        /\ registers[DestIdx(1)] \in Literal
        /\ (Resolved(2) = 32767 /\ Resolved(3) = 1 /\ operation.opcode = 9)
               => registers[DestIdx(1)] = 0
        /\ (Resolved(2) = 200 /\ Resolved(3) = 200 /\ operation.opcode = 10)
               => registers[DestIdx(1)] = 7232
        /\ Aborted => operation.at + 4 >= WordModulus

\* C8 witness: mult of 200 by 200 was executed
C8_Witness ==
    /\ Executed(10) /\ ~Aborted
    /\ register_idx(Raw(1)) # None
    /\ Resolved(2) = 200 /\ Resolved(3) = 200
    /\ registers[DestIdx(1)] = 7232

\* C9: not d,a of a value a in 0..32767 stores the 15-bit complement 32767 - a in d,
\* and not d,d executed next restores d to a.
C9_NotIsAnInvolution ==
    [][(/\ ExecutesStep
        /\ operation'.opcode = 14
        /\ register_idx(operation'.args[1]) # None) =>
           /\ get_value(Self, operation'.args[2]) \in Literal =>
                  registers'[Unwrap(register_idx(operation'.args[1]))]
                      = 32767 - get_value(Self, operation'.args[2])
           /\ (/\ Executed(14) /\ ~Aborted
               /\ Resolved(2) \in Literal
               /\ operation'.args = <<Raw(1), Raw(1)>>) =>
                  registers'[DestIdx(1)] = Resolved(2)]_vars

\* C9 witness: not d,a then not d,d were executed, from a = 0 through 32767 back to 0
C9_Witness ==
    /\ Executed(14) /\ ~Aborted
    /\ Raw(1) = Raw(2)
    /\ register_idx(Raw(1)) # None
    /\ before.registers[DestIdx(1)] = 32767
    /\ registers[DestIdx(1)] = 0
    /\ steps = 2

\* C10: push v then pop r, one after the other, leaves r = v, the stack as it was
\* before the push, and the pointer 4 past the push (when the pop completes).
C10_PushPopRoundTrip ==
    [][(/\ ExecutesStep
        /\ Executed(2) /\ ~Aborted
        /\ operation'.opcode = 3
        /\ register_idx(operation'.args[1]) # None) =>
           /\ registers'[Unwrap(register_idx(operation'.args[1]))] = Resolved(1)
           /\ stack' = before.stack
           /\ Len(stack') = Len(stack) - 1
           /\ pc' = "run" => instruction_ptr' = operation.at + 4
           /\ pc' = "panic" => operation.at + 4 >= WordModulus]_vars

\* C10 witness: push 32767 then pop into a register, over a stack holding a word
C10_Witness ==
    /\ Executed(3) /\ ~Aborted
    /\ register_idx(Raw(1)) # None
    /\ registers[DestIdx(1)] = 32767
    /\ stack = <<5>>
    /\ instruction_ptr = 6
    /\ steps = 3

----------------------------------------------------------------------------
\* C11: wmem a, b writes the resolved value of b at the resolved value of a (and, when
\* a is a register reference, leaves the cell at the raw operand alone); an rmem d, a
\* executed next, whose a resolves to that same address, leaves d = the value of b.
C11_WmemThenRmem ==
    [][(Executed(16) /\ ~Aborted) =>
           /\ Resolved(1) \in DOMAIN mem
           /\ mem[Resolved(1)] = Resolved(2)
           /\ (Raw(1) # Resolved(1) /\ Raw(1) \in DOMAIN mem) =>
                  (Raw(1) \in DOMAIN before.mem /\ mem[Raw(1)] = before.mem[Raw(1)])
           /\ (/\ ExecutesStep
               /\ operation'.panic = ""
               /\ operation'.opcode = 15
               /\ register_idx(operation'.args[1]) # None
               /\ get_value(Self, operation'.args[2]) = Resolved(1)) =>
                  registers'[Unwrap(register_idx(operation'.args[1]))] = Resolved(2)]_vars

\* C11 witness: register 0 holds 100, wmem through it stores 200 at the unmapped
\* address 100, and rmem through it has read 200 into register 1
C11_Witness ==
    /\ Executed(15) /\ ~Aborted
    /\ Raw(1) = 32769 /\ Raw(2) = 32768
    /\ Resolved(2) = 100
    /\ 100 \notin 0 .. (Len(Unwrap(binary)) \div 2)
    /\ registers[1] = 200
    /\ steps = 3

----------------------------------------------------------------------------
\* C12: mod d, a, b with b resolving to 0 aborts the run with no register written,
\* halted still false and the pointer where it was; with b resolving to a nonzero
\* value and d a register, d holds a mod b and the pointer is 4 further (a sum past
\* 65535 panics under overflow checks, which is the only abort then).
C12_ModByZeroAborts ==
    Executed(11) =>
        /\ Resolved(3) = 0 =>
               /\ Aborted
               /\ panic_msg = MsgRemZero
               /\ registers = before.registers
               /\ ~halted
               /\ instruction_ptr = operation.at
        /\ (Resolved(3) # 0 /\ register_idx(Raw(1)) # None) =>
               /\ registers[DestIdx(1)] = Resolved(2) % Resolved(3)
               /\ ~Aborted => instruction_ptr = operation.at + 4
               /\ Aborted => operation.at + 4 >= WordModulus

\* C12 witness: mod into a register with a nonzero dividend and a divisor operand that
\* is a register holding 0
C12_Witness ==
    /\ Executed(11)
    /\ register_idx(Raw(1)) # None
    /\ register_idx(Raw(3)) # None
    /\ Resolved(2) # 0
    /\ Resolved(3) = 0
    /\ Aborted

----------------------------------------------------------------------------
\* the load ended in a panic: no operation was ever parsed
LoadFailed == pc = "panic" /\ operation = NoOperation

\* the run was given this program as its image, whole
Runs(program) == binary = Some(ImageOf(program))

\* out 72; out 105; halt
HiProgram == <<19, 72, 19, 105, 0>>

\* C13: a run of out 72; out 105; halt never aborts, its output after k steps is the
\* first k of the bytes 72 ('H'), 105 ('i'), it can always take a step until
\* run_binary returns, and it returns Halted after 3 steps with output 'H', 'i'.
C13_HiProgramPrintsHi ==
    Runs(HiProgram) =>
        /\ ~Aborted
        /\ steps <= 3
        /\ stdout = SubSeq(<<72, 105>>, 1, IF steps < 2 THEN steps ELSE 2)
        /\ halted <=> steps = 3
        /\ pc = "exit" => halted
        /\ pc # "exit" => ENABLED Next

\* C13 witness: the run of the program has returned, Halted, having written 'H', 'i'
C13_Witness ==
    /\ Runs(HiProgram)
    /\ pc = "exit"
    /\ halted
    /\ stdout = <<72, 105>>
    /\ registers = [r \in 0 .. (NumRegisters - 1) |-> 0]
    /\ stack = <<>>

----------------------------------------------------------------------------
\* in r0; out r0; halt
EchoProgram == <<20, 32768, 19, 32768, 0>>

\* C14: a run of in r0; out r0; halt aborts exactly when the input is exhausted at
\* the in; otherwise in consumes one byte x and leaves r0 = x, out writes exactly the
\* byte x, and the run ends Halted after 3 steps.
\* Stated as the claim states it; out writes two bytes for x in 128..255.
C14_EchoProgram ==
    Runs(EchoProgram) =>
        /\ Aborted <=> (steps = 1 /\ stdin_read = <<>>)
        /\ (steps >= 1 /\ ~Aborted) =>
               /\ Len(stdin_read) = 1
               /\ registers[0] = stdin_read[1]
        /\ stdout = IF steps >= 2 THEN stdin_read ELSE <<>>
        /\ halted <=> steps = 3

\* C14, the part that holds: the input byte 65 is echoed as the one byte 65 ('A') and
\* the run has returned Halted
C14_Witness ==
    /\ Runs(EchoProgram)
    /\ stdin_read = <<65>>
    /\ registers[0] = 65
    /\ stdout = <<65>>
    /\ pc = "exit"
    /\ halted

----------------------------------------------------------------------------
\* C15: once read_binary has read an image of 2n bytes (n within the u16 addresses),
\* and before any operation runs, mem maps exactly 0..n-1 and the word at i is byte 2i
\* plus 256 times byte 2i+1; an image of an odd number of bytes ends the run in a
\* panic of read_binary, with no operation parsed or executed, the pointer 0, every
\* register 0, the stack empty and nothing read or written.
C15_LoadsLittleEndianWords ==
    (pc # "load" /\ binary # None) =>
        LET bytes == Unwrap(binary)
            n == Len(bytes) \div 2
        IN  /\ (Len(bytes) % 2 = 0 /\ steps = 0) =>
                   /\ ~LoadFailed
                   /\ DOMAIN mem = 0 .. (n - 1)
                   /\ \A i \in 0 .. (n - 1) :
                          mem[i] = bytes[2 * i + 1] + 256 * bytes[2 * i + 2]
            /\ Len(bytes) % 2 = 1 =>
                   /\ LoadFailed
                   /\ steps = 0
                   /\ instruction_ptr = 0
                   /\ registers = [r \in 0 .. (NumRegisters - 1) |-> 0]
                   /\ stack = <<>>
                   /\ ~halted
                   /\ stdout = <<>>
                   /\ stdin_read = <<>>

\* C15 witness: an image of 7 bytes, three words and a byte, has ended in the panic
C15_Witness ==
    /\ binary # None
    /\ Len(Unwrap(binary)) = 7
    /\ LoadFailed
    /\ panic_msg = MsgUnwrapErr

----------------------------------------------------------------------------
\* the pointer is n past the operation; a sum above 65535 is not an address, and the
\* operation completes then only without overflow checks, the pointer wrapped
Advanced(n) ==
    IF operation.at + n < WordModulus THEN instruction_ptr = operation.at + n
    ELSE ~overflow_checks /\ instruction_ptr = (operation.at + n) % WordModulus

\* C16: after an operation at p that completed, the pointer is p + 1 for noop; p + 2
\* for push, pop, out, in; p + 3 for set, not, rmem, wmem; p + 4 for eq, gt, add, mult,
\* mod, and, or (each while the sum is a 16-bit address); the resolved target for jmp
\* and call; for jt a, t the resolved t if a resolves to nonzero, else p + 3; for
\* jf a, t the resolved t if a resolves to 0, else p + 3; the popped word for ret on a
\* nonempty stack; and p itself for halt and for ret on an empty stack.
C16_PointerAfterOperation ==
    (operation.panic = "" /\ operation.opcode # -1 /\ ~Aborted) =>
        CASE operation.opcode = 21 -> Advanced(1)
          [] operation.opcode \in {2, 3, 19, 20} -> Advanced(2)
          [] operation.opcode \in {1, 14, 15, 16} -> Advanced(3)
          [] operation.opcode \in {4, 5, 9, 10, 11, 12, 13} -> Advanced(4)
          [] operation.opcode \in {6, 17} -> instruction_ptr = Resolved(1)
          [] operation.opcode = 7 ->
                 IF Resolved(1) # 0 THEN instruction_ptr = Resolved(2) ELSE Advanced(3)
          [] operation.opcode = 8 ->
                 IF Resolved(1) = 0 THEN instruction_ptr = Resolved(2) ELSE Advanced(3)
          [] operation.opcode = 0 -> instruction_ptr = operation.at
          [] operation.opcode = 18 ->
                 IF before.stack = <<>> THEN instruction_ptr = operation.at
                 ELSE instruction_ptr = Top(before.stack)

\* C16 witness: a jmp through a register has moved the pointer to the register's
\* content, which is not the address after the jmp
C16_Witness ==
    /\ Executed(6) /\ ~Aborted
    /\ register_idx(Raw(1)) # None
    /\ instruction_ptr = Resolved(1)
    /\ instruction_ptr \notin {operation.at, operation.at + 2, Raw(1)}

----------------------------------------------------------------------------
\* C17: once the image is loaded, a step that changes mem is the execution of a wmem,
\* and it changes (or maps) only the cell at the resolved value of wmem's first operand;
\* every other step leaves every cell as it was.
C17_OnlyWmemWritesMemory ==
    [][(pc # "load" /\ mem' # mem) =>
           /\ ExecutesStep
           /\ operation'.panic = ""
           /\ operation'.opcode = 16
           /\ LET address == get_value(Self, operation'.args[1])
              IN  /\ DOMAIN mem' = DOMAIN mem \cup {address}
                  /\ \A a \in DOMAIN mem : a # address => mem'[a] = mem[a]]_vars

\* C17 witness: a wmem has replaced the content of a mapped cell, after an operation
\* that is not a wmem was executed
C17_Witness ==
    /\ Executed(16) /\ ~Aborted
    /\ steps >= 2
    /\ Resolved(1) \in DOMAIN before.mem
    /\ before.mem[Resolved(1)] # Resolved(2)
    /\ mem = mem_insert(before.mem, Resolved(1), Resolved(2))

----------------------------------------------------------------------------
\* the operations whose first operand is the register they write
DestinationOpcodes == {1, 3, 4, 5, 9, 10, 11, 12, 13, 14, 15, 20}

\* C18: executing set, pop, eq, gt, add, mult, mod, and, or, not, rmem or in with a
\* first operand that is not a register reference 32768..32775 aborts the run, with
\* every register and every memory cell as before the operation.
C18_NonRegisterDestinationAborts ==
    (/\ operation.panic = ""
     /\ operation.opcode \in DestinationOpcodes
     /\ Raw(1) \notin RegisterBase .. RegisterLast) =>
        /\ Aborted
        /\ registers = before.registers
        /\ mem = before.mem

\* C18 witness: an rmem of a mapped cell into the literal 7 has aborted in set_register
C18_Witness ==
    /\ Executed(15)
    /\ Raw(1) = 7
    /\ Resolved(2) \in DOMAIN before.mem
    /\ Aborted
    /\ panic_msg = MsgUnwrapNone
    /\ registers = before.registers

----------------------------------------------------------------------------
\* C19: whenever the parse or the execution of an operation ends in a panic, the
\* stack, the registers, the memory, the pointer and the consumed input are what they
\* were when the operation was parsed.
\* Stated as the claim states it; pop has removed the top of the stack, and in has
\* consumed a byte, when set_register panics on their destination.
C19_AbortsAreAtomic ==
    (Aborted /\ ~LoadFailed) =>
        /\ stack = before.stack
        /\ registers = before.registers
        /\ mem = before.mem
        /\ instruction_ptr = before.instruction_ptr
        /\ stdin_read = before.stdin_read

----------------------------------------------------------------------------
\* the addresses of the operand words of the operation at the pointer, as u16
OperandAddresses ==
    {(instruction_ptr + 1 + i) % WordModulus :
         i \in 0 .. (num_arguments(mem[instruction_ptr]) - 1)}

\* C20: a step of the running machine aborts the run, halted still false, when the
\* pointer is at an unmapped address (the machine exactly as it was), when an operand
\* word of the operation at the pointer is at an unmapped address (the machine exactly
\* as it was), and when it executes an rmem whose address operand resolves to an
\* unmapped address (no register written); so a run that leaves its image ends in a
\* panic, not Halted.
C20_UnmappedFetchAborts ==
    [][/\ (Running /\ instruction_ptr \notin DOMAIN mem) =>
              /\ pc' = "panic"
              /\ operation'.panic = MsgUnwrapNone
              /\ ~halted'
              /\ UNCHANGED <<instruction_ptr, mem, registers, stack, stdout, stdin_read>>
       /\ (/\ Running
           /\ instruction_ptr \in DOMAIN mem
           /\ mem[instruction_ptr] <= MaxOpcode
           /\ OperandAddresses \ DOMAIN mem # {}) =>
              /\ pc' = "panic"
              /\ operation'.panic \in {MsgUnwrapNone, MsgAddOverflow}
              /\ ~halted'
              /\ UNCHANGED <<instruction_ptr, mem, registers, stack, stdout, stdin_read>>
       /\ (/\ ExecutesStep
           /\ operation'.opcode = 15
           /\ get_value(Self, operation'.args[2]) \notin DOMAIN mem) =>
              /\ pc' = "panic"
              /\ panic_msg' = MsgUnwrapNone
              /\ ~halted'
              /\ registers' = registers]_vars

\* C20 witness: a run has executed its whole image, which has no halt, and has aborted
\* fetching the opcode at the first address after the image
C20_Witness ==
    /\ Aborted
    /\ steps >= 2
    /\ operation.panic = MsgUnwrapNone
    /\ operation.at = Len(Unwrap(binary)) \div 2
    /\ operation.at \notin DOMAIN mem
    /\ instruction_ptr = operation.at
    /\ ~halted

====
